---- MODULE Spec2Model ----
(***************************************************************************)
(* A model of pyoutlook (src/pyoutlook.py): the Folder snapshot of the     *)
(* host's folder hierarchy, the process-wide OutlookAPI session, the       *)
(* reverse iteration over a folder's items and the Mail wrapper.           *)
(*                                                                         *)
(* The mail host (Outlook behind win32com) is an external collaborator.    *)
(* It is modelled by its observable state only: a forest of folders, an    *)
(* ordered item collection with a cursor, and one message item.  Where the *)
(* host's answer is not fixed by the wrapper (GetLast on an empty          *)
(* collection, GetPrevious past the first item, a call that fails) the     *)
(* model takes every answer the host can give.                             *)
(*                                                                         *)
(* Python's Optional values are sequences of length at most one:           *)
(* None is <<>> and a present value x is <<x>>.                            *)
(***************************************************************************)
EXTENDS Integers, Sequences, FiniteSets, TLC

VARIABLES
    \* ---- the host's folder hierarchy ----
    parent,         \* live folder handle -> handle of its parent (0: the namespace)
    fname,          \* live folder handle -> its Name
    nextHandle,     \* the handle the host gives the next folder it creates
    \* ---- the process: class attribute, objects, references, outcome ----
    cls_outlookapi, \* OutlookAPI._outlookapi: 0 while the attribute is absent
    heap,           \* the OutlookAPI objects allocated so far, by object id
    refs,           \* the object ids constructions have returned to callers
    constructs,     \* number of OutlookAPI(...) calls made
    nextItem,       \* the handle the host gives the next message item
    folder,         \* Optional: the last Folder built by a direct Folder(handle)
    op,             \* the last operation called
    arg,            \* the argument it was called with
    raised,         \* Optional: the error the host (or the interpreter) raised in it
    err,            \* Optional: the error the caller of the operation received
    exit,           \* Optional: the SystemExit that ended the process
    scanned,        \* the process list psutil reported to check_outlook_is_open
    \* ---- Folder.loop_trought_last_messages ----
    items,          \* the folder's Items collection, oldest first (item handles)
    gen,            \* the generator: its frame and what it has yielded
    \* ---- one Mail and the host item behind it ----
    m,              \* the Mail object
    msg,            \* the host's message item the Mail is bound to
    calls,          \* number of calls the Mail made into the host
    ret             \* Optional: what the last Mail operation returned

hostVars == <<parent, fname, nextHandle>>
procVars == <<cls_outlookapi, heap, refs, constructs, nextItem, folder, op, arg,
              raised, err, exit, scanned>>
iterVars == <<items, gen>>
mailVars == <<m, msg, calls, ret>>
vars == <<hostVars, procVars, iterVars, mailVars>>

None == <<>>
Some(x) == <<x>>

\* ------------------------------------------------------------------ bounds
Names == {"a", "b"}          \* folder and account names
InitFolders == 2             \* folders the host has at most when the process starts
MaxHandles == 3              \* folders the host creates at most overall
MaxConstructs == 2           \* OutlookAPI(...) calls
MaxMailItems == 1            \* message items the host creates
TreeFolders == 4             \* folders of the hierarchies Folder is constructed on
MaxFolderItems == 3          \* items of the folder iterated over
MaxLoops == 4                \* the largest limit passed to the iteration
MaxRecipients == 2           \* recipients of a message item
MaxAttachments == 1          \* attachments of a message item
MaxCalls == 2                \* calls one Mail makes into the host

\* the errors a host call can fail with, and the interpreter's error for an
\* attribute looked up on None
HostErrors ==
    { [kind |-> "com_error", msg |-> "Call was rejected by callee."],
      [kind |-> "com_error", msg |-> "The operation failed."] }
AttributeError(attr) ==
    [kind |-> "AttributeError", msg |-> "'NoneType' object has no attribute " \o attr]

\* the process lists psutil can report
ProcLists ==
    { <<>>, <<"python.exe">>, <<"OUTLOOK.EXE">>, <<"python.exe", "OUTLOOK.EXE">>,
      <<"outlook.exe", "python.exe">> }

\* ------------------------------------------------------- the host's folders
RECURSIVE SortedSeq(_)
SortedSeq(S) ==
    IF S = {} THEN <<>>
    ELSE LET x == CHOOSE y \in S : \A z \in S : y <= z
         IN  <<x>> \o SortedSeq(S \ {x})

\* what iterating h.Folders gives: the child handles, in the host's order
HostFolders(par, h) == SortedSeq({c \in DOMAIN par : par[c] = h})

RECURSIVE Descendants(_, _)
Descendants(par, h) ==
    LET cs == {c \in DOMAIN par : par[c] = h}
    IN  cs \cup UNION {Descendants(par, c) : c \in cs}

\* h.Folders[name]: the child of h with that name, None when the host has none
HostFolderByName(par, nm, h, name) ==
    LET cs == {c \in DOMAIN par : par[c] = h /\ nm[c] = name}
    IN  IF cs = {} THEN None ELSE Some(CHOOSE c \in cs : TRUE)

\* h.Folders.Add(name), by the host, with the handle new
HostAddParent(par, h, new) == [c \in DOMAIN par \cup {new} |-> IF c = new THEN h ELSE par[c]]
HostAddName(nm, name, new) == [c \in DOMAIN nm \cup {new} |-> IF c = new THEN name ELSE nm[c]]

\* c.Delete(), by the host: the folder goes with everything below it
HostDeleteParent(par, c) ==
    [d \in DOMAIN par \ ({c} \cup Descendants(par, c)) |-> par[d]]
HostDeleteName(par, nm, c) ==
    [d \in DOMAIN par \ ({c} \cup Descendants(par, c)) |-> nm[d]]

\* ---------------------------------------------------------------- Folder
\* a dict comprehension {key(v): value(v) for v in seq}: a later v replaces an
\* earlier one under the same key
LastWith(seq, nm, k) ==
    CHOOSE i \in DOMAIN seq :
        /\ nm[seq[i]] = k
        /\ \A j \in DOMAIN seq : nm[seq[j]] = k => j <= i

FolderNoRecursion(par, nm, COMObject) ==
    [ Name      |-> nm[COMObject],
      COMObject |-> COMObject,
      Folders   |->
          LET seq == HostFolders(par, COMObject)
          IN  [k \in {nm[seq[i]] : i \in DOMAIN seq} |->
                  [ Name      |-> k,
                    COMObject |-> seq[LastWith(seq, nm, k)],
                    Folders   |-> <<>> ]] ]

RECURSIVE Folder(_, _, _)
Folder(par, nm, COMObject) ==
    [ Name      |-> nm[COMObject],
      COMObject |-> COMObject,
      Folders   |->
          LET seq == HostFolders(par, COMObject)
          IN  [k \in {nm[seq[i]] : i \in DOMAIN seq} |->
                  Folder(par, nm, seq[LastWith(seq, nm, k)])] ]

\* {value.name: Folder(value) for value in self.namespace.Folders}
Accounts(par, nm) ==
    LET seq == HostFolders(par, 0)
    IN  [k \in {nm[seq[i]] : i \in DOMAIN seq} |->
            Folder(par, nm, seq[LastWith(seq, nm, k)])]

\* ------------------------------------------------------------------ Mail
Mail(COMObject) ==
    [ COMObject   |-> COMObject,
      Sender      |-> None,
      To          |-> Some("SampleMail@mail.com"),
      Subject     |-> Some("Sample Email"),
      HTMLBody    |-> Some("Sample test message created."),
      HTMLformat  |-> None,
      Attachments |-> <<>>,
      CC          |-> Some("SampleSomebody@mail.com"),
      BCC         |-> None ]

\* ------------------------------------------------------------ OutlookAPI
\* an object as object.__new__ leaves it: no instance attribute yet
NewObject ==
    [ attrs |-> {}, outlook |-> 0, namespace |-> 0, accounts |-> <<>>,
      account |-> 0, mail |-> None ]

\* __new__: the object id a construction gets, given the class attribute
OutlookAPI_new_always(c, hp) == Len(hp) + 1
OutlookAPI_new(c, hp) == IF c = 0 THEN Len(hp) + 1 ELSE c

check_outlook_is_open_first_only(ps) == Len(ps) > 0 /\ ps[1] = "OUTLOOK.EXE"
check_outlook_is_open(ps) == \E i \in DOMAIN ps : ps[i] = "OUTLOOK.EXE"

\* "%s" of a bool
StrBool(b) == IF b THEN "True" ELSE "False"

\* the SystemExit of __init__'s handler
SystemExit(ps, ex) ==
    [ status |-> StrBool(check_outlook_is_open(ps)), kind |-> ex.kind, msg |-> ex.msg ]

\* what the host does to an operation: None, it answers every call, or
\* Some([at, e]), the call named at raises e
Faults(points) == {None} \cup {Some([at |-> a, e |-> x]) : a \in points, x \in HostErrors}
FailsAt(fault, point) == fault # None /\ fault[1].at = point

\* __init__'s try block, as far as it gets.  The result is the object and the
\* exception the block ended with, if any.
OutlookAPI_init_keeps_mail(self, account, fault, par, nm) ==
    LET s1 == [self EXCEPT !.attrs = @ \cup {"outlook"}, !.outlook = 1]
        s2 == [s1 EXCEPT !.attrs = @ \cup {"namespace"}, !.namespace = 1]
        s3 == [s2 EXCEPT !.attrs = @ \cup {"accounts"}, !.accounts = Accounts(par, nm)]
    IN  IF FailsAt(fault, "Dispatch") THEN [obj |-> self, ex |-> Some(fault[1].e)]
        ELSE IF FailsAt(fault, "GetNameSpace") THEN [obj |-> s1, ex |-> Some(fault[1].e)]
        ELSE IF FailsAt(fault, "Folders") THEN [obj |-> s2, ex |-> Some(fault[1].e)]
        ELSE IF account \notin DOMAIN s3.accounts
             THEN [obj |-> s3, ex |-> Some(AttributeError("'COMObject'"))]
        ELSE [obj |-> [s3 EXCEPT !.attrs = @ \cup {"account", "mail"},
                                 !.account = s3.accounts[account].COMObject],
              ex |-> None]

OutlookAPI_init(self, account, fault, par, nm) ==
    LET s1 == [self EXCEPT !.attrs = @ \cup {"outlook"}, !.outlook = 1]
        s2 == [s1 EXCEPT !.attrs = @ \cup {"namespace"}, !.namespace = 1]
        s3 == [s2 EXCEPT !.attrs = @ \cup {"accounts"}, !.accounts = Accounts(par, nm)]
    IN  IF FailsAt(fault, "Dispatch") THEN [obj |-> self, ex |-> Some(fault[1].e)]
        ELSE IF FailsAt(fault, "GetNameSpace") THEN [obj |-> s1, ex |-> Some(fault[1].e)]
        ELSE IF FailsAt(fault, "Folders") THEN [obj |-> s2, ex |-> Some(fault[1].e)]
        ELSE IF account \notin DOMAIN s3.accounts
             THEN [obj |-> s3, ex |-> Some(AttributeError("'COMObject'"))]
        ELSE [obj |-> [s3 EXCEPT !.attrs = @ \cup {"account", "mail"},
                                 !.account = s3.accounts[account].COMObject,
                                 !.mail = None],
              ex |-> None]

\* add_folder's and delete_folder's effect on the object: mutatorRaised says
\* the host call of the first statement raised, enumRaised that the
\* enumeration of namespace.Folders did; par and nm are the host's folders
\* after the first statement
add_folder_no_snapshot(self, mutatorRaised, enumRaised, par, nm) == self
add_folder_finally(self, mutatorRaised, enumRaised, par, nm) ==
    IF enumRaised THEN self ELSE [self EXCEPT !.accounts = Accounts(par, nm)]
add_folder(self, mutatorRaised, enumRaised, par, nm) ==
    IF mutatorRaised \/ enumRaised THEN self
    ELSE [self EXCEPT !.accounts = Accounts(par, nm)]

delete_folder(self, mutatorRaised, enumRaised, par, nm) ==
    IF mutatorRaised \/ enumRaised THEN self
    ELSE [self EXCEPT !.accounts = Accounts(par, nm)]

create_mail(self, item) == [self EXCEPT !.mail = Some(Mail(Some(item)))]
open_saved_mail(self, item) == [self EXCEPT !.mail = Some(Mail(Some(item)))]

\* ------------------------------------------------------------ initial states
\* the forests of n folders: a folder's parent has a smaller handle, and the
\* host keeps the names of the folders under one parent distinct
HostForests(n) ==
    { f \in [par : [1..n -> 0..n], nm : [1..n -> Names]] :
        /\ \A c \in 1..n : f.par[c] < c
        /\ \A c, d \in 1..n : (c # d /\ f.par[c] = f.par[d]) => f.nm[c] # f.nm[d] }

IdleGen == [ state |-> "none", loops |-> None, limit |-> 0, i |-> 0, cursor |-> 0,
             mail |-> None, yielded |-> <<>>, ex |-> None ]
\* a message item as the host creates it
BlankItem ==
    [ Recipients |-> <<>>, Attachments |-> <<>>, UnRead |-> FALSE, HTMLBody |-> "",
      Categories |-> "Red; Blue", MessageClass |-> "IPM.Note",
      SentOn |-> [day |-> 5, month |-> 3, year |-> 2024],
      ConversationTopic |-> "Report" ]

InitProc ==
    /\ cls_outlookapi = 0 /\ heap = <<>> /\ refs = {} /\ constructs = 0
    /\ nextItem = 1 /\ folder = None /\ op = "start" /\ arg = ""
    /\ raised = None /\ err = None /\ exit = None /\ scanned = <<>>
InitIterIdle == items = <<>> /\ gen = IdleGen
InitMailIdle == m = Mail(None) /\ msg = BlankItem /\ calls = 0 /\ ret = None

InitHost(maxFolders) ==
    \E n \in 0..maxFolders : \E f \in HostForests(n) :
        parent = f.par /\ fname = f.nm /\ nextHandle = n + 1

Init == InitHost(InitFolders) /\ InitProc /\ InitIterIdle /\ InitMailIdle

\* ------------------------------------------------- the session's operations
\* OutlookAPI(account): __new__, then __init__ on the object it returned
Construct(account, fault) ==
    /\ exit = None /\ constructs < MaxConstructs
    /\ LET id == OutlookAPI_new(cls_outlookapi, heap)
           hp == IF id > Len(heap) THEN Append(heap, NewObject) ELSE heap
           r  == OutlookAPI_init(hp[id], account, fault, parent, fname)
       IN  /\ cls_outlookapi' = id
           /\ heap' = [hp EXCEPT ![id] = r.obj]
           /\ raised' = r.ex
           /\ IF r.ex = None
              THEN refs' = refs \cup {id} /\ exit' = None /\ scanned' = scanned
              ELSE /\ refs' = refs
                   /\ \E ps \in ProcLists :
                         exit' = Some(SystemExit(ps, r.ex[1])) /\ scanned' = ps
    /\ constructs' = constructs + 1
    /\ op' = "OutlookAPI" /\ arg' = account /\ err' = None
    /\ UNCHANGED <<hostVars, nextItem, folder, iterVars, mailVars>>

\* self.add_folder(new_folder_name); the host rejects a name the account has
AddFolder(id, new_folder_name, fault) ==
    /\ exit = None /\ id \in refs
    /\ LET self == heap[id]
           exists == HostFolderByName(parent, fname, self.account, new_folder_name) # None
       IN  IF exists \/ FailsAt(fault, "mutator")
           THEN /\ UNCHANGED hostVars
                /\ heap' = [heap EXCEPT ![id] = add_folder(self, TRUE, FALSE, parent, fname)]
                /\ \E e \in HostErrors :
                      /\ fault # None => e = fault[1].e
                      /\ raised' = Some(e) /\ err' = Some(e)
           ELSE /\ nextHandle <= MaxHandles
                /\ parent' = HostAddParent(parent, self.account, nextHandle)
                /\ fname' = HostAddName(fname, new_folder_name, nextHandle)
                /\ nextHandle' = nextHandle + 1
                /\ heap' = [heap EXCEPT
                               ![id] = add_folder(self, FALSE, fault # None, parent', fname')]
                /\ raised' = (IF fault # None THEN Some(fault[1].e) ELSE None)
                /\ err' = raised'
    /\ op' = "add_folder" /\ arg' = new_folder_name
    /\ UNCHANGED <<cls_outlookapi, refs, constructs, nextItem, folder, exit, scanned,
                   iterVars, mailVars>>

\* self.delete_folder(folder_name); the host rejects a name the account has not
DeleteFolder(id, folder_name, fault) ==
    /\ exit = None /\ id \in refs
    /\ LET self == heap[id]
           found == HostFolderByName(parent, fname, self.account, folder_name)
       IN  IF found = None \/ FailsAt(fault, "mutator")
           THEN /\ UNCHANGED hostVars
                /\ heap' = [heap EXCEPT ![id] = delete_folder(self, TRUE, FALSE, parent, fname)]
                /\ \E e \in HostErrors :
                      /\ fault # None => e = fault[1].e
                      /\ raised' = Some(e) /\ err' = Some(e)
           ELSE /\ parent' = HostDeleteParent(parent, found[1])
                /\ fname' = HostDeleteName(parent, fname, found[1])
                /\ nextHandle' = nextHandle
                /\ heap' = [heap EXCEPT
                               ![id] = delete_folder(self, FALSE, fault # None, parent', fname')]
                /\ raised' = (IF fault # None THEN Some(fault[1].e) ELSE None)
                /\ err' = raised'
    /\ op' = "delete_folder" /\ arg' = folder_name
    /\ UNCHANGED <<cls_outlookapi, refs, constructs, nextItem, folder, exit, scanned,
                   iterVars, mailVars>>

\* self.create_mail() and self.open_saved_mail(path): the host hands out an item
CreateMail(id) ==
    /\ exit = None /\ id \in refs /\ nextItem <= MaxMailItems
    /\ heap' = [heap EXCEPT ![id] = create_mail(heap[id], nextItem)]
    /\ nextItem' = nextItem + 1
    /\ op' = "create_mail" /\ arg' = "" /\ raised' = None /\ err' = None
    /\ UNCHANGED <<hostVars, cls_outlookapi, refs, constructs, folder, exit, scanned,
                   iterVars, mailVars>>

OpenSavedMail(id, path) ==
    /\ exit = None /\ id \in refs /\ nextItem <= MaxMailItems
    /\ heap' = [heap EXCEPT ![id] = open_saved_mail(heap[id], nextItem)]
    /\ nextItem' = nextItem + 1
    /\ op' = "open_saved_mail" /\ arg' = path /\ raised' = None /\ err' = None
    /\ UNCHANGED <<hostVars, cls_outlookapi, refs, constructs, folder, exit, scanned,
                   iterVars, mailVars>>

Next ==
    \/ \E account \in Names, fault \in Faults({"Dispatch", "GetNameSpace", "Folders"}) :
          Construct(account, fault)
    \/ \E id \in refs, name \in Names, fault \in Faults({"mutator", "enum"}) :
          AddFolder(id, name, fault)
    \/ \E id \in refs, name \in Names, fault \in Faults({"mutator", "enum"}) :
          DeleteFolder(id, name, fault)
    \/ \E id \in refs : CreateMail(id)
    \/ \E id \in refs : OpenSavedMail(id, "saved.msg")

Spec == Init /\ [][Next]_vars

\* --------------------------------------------- Folder on its own hierarchy
\* Folder(COMObject) on a folder handle of the host
NewFolder(h) ==
    /\ h \in DOMAIN parent
    /\ folder' = Some(Folder(parent, fname, h))
    /\ op' = "Folder" /\ arg' = "" /\ raised' = None /\ err' = None
    /\ UNCHANGED <<hostVars, cls_outlookapi, heap, refs, constructs, nextItem, exit,
                   scanned, iterVars, mailVars>>

InitFolder == InitHost(TreeFolders) /\ InitProc /\ InitIterIdle /\ InitMailIdle
NextFolder == \E h \in DOMAIN parent : NewFolder(h)
SpecFolder == InitFolder /\ [][NextFolder]_vars

\* ------------------------------------- Folder.loop_trought_last_messages
\* `not loops` of Python: None and 0 are both false
Truthy(loops) == loops # None /\ loops[1] # 0

\* folder_items.GetLast() and folder_items.GetPrevious(): the item and the
\* cursor after the call.  Outside the collection the host answers "Nothing"
\* (win32com hands None to the caller) or "raise".
GetLast(its) ==
    [ item |-> IF Len(its) > 0 THEN Some(its[Len(its)]) ELSE None, cursor |-> Len(its) ]
GetPrevious(its, cursor) ==
    IF cursor > 1 THEN [item |-> Some(its[cursor - 1]), cursor |-> cursor - 1]
    ELSE [item |-> None, cursor |-> 0]

\* one next() on the generator g: from its creation to the first yield, or from
\* a yield to the next one, or to the end of the loop, or to an exception
loop_trought_last_messages(g, its, answer, e) ==
    IF g.state = "created"
    THEN LET loops == IF ~Truthy(g.loops) THEN Len(its) ELSE g.loops[1]
             got == GetLast(its)
         IN  IF got.item = None /\ answer = "raise"
             THEN [g EXCEPT !.state = "error", !.ex = Some(e)]
             ELSE LET mail == Mail(got.item)
                  IN  IF 0 < loops
                      THEN [g EXCEPT !.state = "suspended", !.limit = loops, !.i = 1,
                                     !.cursor = got.cursor, !.mail = Some(mail),
                                     !.yielded = Append(@, mail)]
                      ELSE [g EXCEPT !.state = "done", !.limit = loops,
                                     !.cursor = got.cursor, !.mail = Some(mail)]
    ELSE LET got == GetPrevious(its, g.cursor)
         IN  IF got.item = None /\ answer = "raise"
             THEN [g EXCEPT !.state = "error", !.ex = Some(e)]
             ELSE LET mail == Mail(got.item)
                  IN  IF g.i < g.limit
                      THEN [g EXCEPT !.i = @ + 1, !.cursor = got.cursor,
                                     !.mail = Some(mail), !.yielded = Append(@, mail)]
                      ELSE [g EXCEPT !.state = "done", !.cursor = got.cursor,
                                     !.mail = Some(mail)]

\* folder.loop_trought_last_messages(loops): a new generator, nothing run yet
IterCall(loops) ==
    /\ gen.state \in {"none", "done", "error"}
    /\ gen' = [IdleGen EXCEPT !.state = "created", !.loops = loops]
    /\ UNCHANGED <<hostVars, procVars, items, mailVars>>

\* next(generator)
IterNext(answer, e) ==
    /\ gen.state \in {"created", "suspended"}
    /\ gen' = loop_trought_last_messages(gen, items, answer, e)
    /\ UNCHANGED <<hostVars, procVars, items, mailVars>>

Limits == {None} \cup {Some(n) : n \in 0..MaxLoops}

InitIter ==
    /\ parent = <<>> /\ fname = <<>> /\ nextHandle = 1
    /\ InitProc /\ InitMailIdle
    /\ \E T \in 0..MaxFolderItems : items = [i \in 1..T |-> i]
    /\ gen = IdleGen
NextIter ==
    \/ \E loops \in Limits : IterCall(loops)
    \/ \E answer \in {"Nothing", "raise"}, e \in HostErrors : IterNext(answer, e)
SpecIter == InitIter /\ [][NextIter]_vars

\* ------------------------------------------------------- Mail's operations
\* Every method is an operator from the Mail and the host's item to what the
\* call leaves: the exception it ended with, the item, the number of host
\* methods it reached and what it returned.
Raise(it, ex, n) == [ex |-> Some(ex), it |-> it, n |-> n, ret |-> None]
Return(it, n, value) == [ex |-> None, it |-> it, n |-> n, ret |-> value]
Bound(self) == self.COMObject # None

\* self.COMObject.<Method>(...) for the methods whose effect stays in the host
Forward(self, it, method) ==
    IF ~Bound(self) THEN Raise(it, AttributeError("'" \o method \o "'"), 0)
    ELSE Return(it, 1, None)

send_unguarded(self, it) == Return(it, 1, None)
send(self, it) == Forward(self, it, "Send")
save(self, it) == Forward(self, it, "Save")
move_to(self, it) == Forward(self, it, "Move")
close(self, it) == Forward(self, it, "Close")
display(self, it) == Forward(self, it, "Display")

mark_unread(self, it) ==
    IF ~Bound(self) THEN Raise(it, AttributeError("'UnRead'"), 0)
    ELSE Return([it EXCEPT !.UnRead = TRUE], 1, None)

\* the host appends a recipient and says whether it resolved: resolved[i] is
\* its answer for recipients[i]
add_recipients(self, it, recipients, resolved) ==
    IF recipients = <<>> THEN Return(it, 0, None)
    ELSE IF ~Bound(self) THEN Raise(it, AttributeError("'Recipients'"), 0)
    ELSE Return([it EXCEPT !.Recipients =
                     @ \o [i \in DOMAIN recipients |->
                              [name |-> recipients[i], Resolved |-> resolved[i]]]],
                Len(recipients), None)

\* str(attachment) of a pathlib.Path, and a str as it is
StrPath(attachment) == attachment.name

add_attachments(self, it, attachments) ==
    LET list == IF attachments # None /\ attachments[1] # <<>>
                THEN attachments[1] ELSE self.Attachments
    IN  IF list = <<>> THEN Return(it, 0, None)
        ELSE IF ~Bound(self) THEN Raise(it, AttributeError("'Attachments'"), 0)
        ELSE Return([it EXCEPT !.Attachments =
                         @ \o [i \in DOMAIN list |-> StrPath(list[i])]],
                    Len(list), None)

FirstAttachment == 1

\* Attachments.Remove(1); the host rejects the index when there is no attachment
remove_attachemnt(self, it, e) ==
    IF ~Bound(self) THEN Raise(it, AttributeError("'Attachments'"), 0)
    ELSE IF Len(it.Attachments) < FirstAttachment THEN Raise(it, e, 1)
    ELSE Return([it EXCEPT !.Attachments =
                     [i \in 1..(Len(@) - 1) |-> IF i < FirstAttachment THEN @[i] ELSE @[i + 1]]],
                1, None)

\* str.format(*characters) on the templates the model uses: one without a
\* replacement field and one with a single "{}"
StrFormat(template, characters) ==
    IF template = "Dear {}"
    THEN IF characters = <<>> THEN None ELSE Some("Dear " \o characters[1])
    ELSE Some(template)

html_body_format(self, it, characters) ==
    IF self.HTMLBody = None THEN Raise(it, AttributeError("'format'"), 0)
    ELSE LET text == StrFormat(self.HTMLBody[1], characters)
         IN  IF text = None
             THEN Raise(it, [kind |-> "IndexError",
                             msg |-> "Replacement index 0 out of range for positional args tuple"], 0)
             ELSE IF ~Bound(self) THEN Raise(it, AttributeError("'HTMLBody'"), 0)
             ELSE Return([it EXCEPT !.HTMLBody = text[1]], 1, None)

\* Categories.split("; ") on the category strings the model uses
SplitCategories(text) ==
    IF text = "Red; Blue" THEN <<"Red", "Blue">> ELSE <<text>>

\* strftime("%d.%m.%Y")
TwoDigits(n) == IF n < 10 THEN "0" \o ToString(n) ELSE ToString(n)
Strftime(date) ==
    TwoDigits(date.day) \o "." \o TwoDigits(date.month) \o "." \o ToString(date.year)

\* get_sender reads Sender, then the attribute SenderEmailAddres, which no
\* item has
get_sender(self, it) ==
    IF ~Bound(self) THEN Raise(it, AttributeError("'Sender'"), 0)
    ELSE Raise(it, [kind |-> "AttributeError", msg |-> "SenderEmailAddres"], 1)
get_category(self, it) ==
    IF ~Bound(self) THEN Raise(it, AttributeError("'Categories'"), 0)
    ELSE Return(it, 1, Some(SplitCategories(it.Categories)))
get_class(self, it) ==
    IF ~Bound(self) THEN Raise(it, AttributeError("'MessageClass'"), 0)
    ELSE Return(it, 1, Some(it.MessageClass))
get_senton_date(self, it) ==
    IF ~Bound(self) THEN Raise(it, AttributeError("'SentOn'"), 0)
    ELSE Return(it, 1, Some(Strftime(it.SentOn)))
get_conversation_topic(self, it) ==
    IF ~Bound(self) THEN Raise(it, AttributeError("'ConversationTopic'"), 0)
    ELSE Return(it, 1, Some(it.ConversationTopic))

check_valid_mail_address_always(address) == TRUE
check_valid_mail_address(address) == address.Resolved

\* what the host gives for a resolved recipient
PrimarySmtpAddress(recipient) == recipient.name \o "@domen.com"
ExchangeUserName(recipient) == "Name of " \o recipient.name

\* the generator's loop, consumed to its end: the addresses yielded and the
\* lines printed, from the recipients left to visit
RECURSIVE RecipientsLoop(_, _)
RecipientsLoop(recipients, acc) ==
    IF recipients = <<>> THEN acc
    ELSE LET recipient == Head(recipients)
         IN  IF check_valid_mail_address(recipient)
             THEN RecipientsLoop(Tail(recipients),
                      [acc EXCEPT !.yielded = Append(@, PrimarySmtpAddress(recipient))])
             ELSE RecipientsLoop(Tail(recipients),
                      [acc EXCEPT !.printed = Append(@, "addres=" \o recipient.name)])

get_recipients_mail_address(self, it) ==
    IF ~Bound(self) THEN Raise(it, AttributeError("'Recipients'"), 0)
    ELSE Return(it, 1, Some(RecipientsLoop(it.Recipients, [yielded |-> <<>>, printed |-> <<>>])))

RECURSIVE RecipientNames(_)
RecipientNames(recipients) ==
    IF recipients = <<>> THEN <<>>
    ELSE (IF check_valid_mail_address(Head(recipients))
          THEN <<ExchangeUserName(Head(recipients))>> ELSE <<>>)
         \o RecipientNames(Tail(recipients))

get_recipients_address(self, it) ==
    IF ~Bound(self) THEN Raise(it, AttributeError("'Recipients'"), 0)
    ELSE Return(it, 1, Some(RecipientNames(it.Recipients)))

\* ---- the actions
\* a call of a method on m, with what the call left
Called(method, argument, r) ==
    /\ calls + r.n <= MaxCalls
    /\ msg' = r.it /\ calls' = calls + r.n /\ ret' = r.ret
    /\ raised' = r.ex /\ err' = r.ex
    /\ op' = method /\ arg' = argument
    /\ UNCHANGED <<m, hostVars, cls_outlookapi, heap, refs, constructs, nextItem, folder,
                   exit, scanned, iterVars>>

\* m.create(): the host hands out a new item
Create ==
    /\ nextItem <= MaxMailItems
    /\ m' = [m EXCEPT !.COMObject = Some(nextItem)]
    /\ nextItem' = nextItem + 1
    /\ msg' = BlankItem /\ ret' = None /\ raised' = None /\ err' = None
    /\ op' = "create" /\ arg' = ""
    /\ UNCHANGED <<calls, hostVars, cls_outlookapi, heap, refs, constructs, folder,
                   exit, scanned, iterVars>>

\* the caller assigns a field of m
Files == {[isPath |-> TRUE, name |-> "a.txt"], [isPath |-> FALSE, name |-> "b.txt"]}
SetField ==
    /\ \/ m' = [m EXCEPT !.HTMLBody = Some("Dear {}")]
       \/ \E f \in {x \in Files : x.isPath} : m' = [m EXCEPT !.Attachments = <<f>>]
    /\ op' = "setattr" /\ arg' = "" /\ ret' = None /\ raised' = None /\ err' = None
    /\ UNCHANGED <<msg, calls, hostVars, cls_outlookapi, heap, refs, constructs, nextItem,
                   folder, exit, scanned, iterVars>>

Size(list) == IF list = <<>> THEN "empty" ELSE "non-empty"
People == {"ann", "bob"}
RecipientLists == {<<>>} \cup {<<p>> : p \in People}
AttachmentLists == {None, Some(<<>>)} \cup {Some(<<f>>) : f \in Files}

Send == Called("send", "", send(m, msg))
Save == Called("save", "", save(m, msg))
MoveTo == Called("move_to", "", move_to(m, msg))
Close == Called("close", "", close(m, msg))
Display == Called("display", "", display(m, msg))
MarkUnread == Called("mark_unread", "", mark_unread(m, msg))
AddRecipients ==
    \E recipients \in RecipientLists, resolved \in [1..1 -> BOOLEAN] :
        /\ Len(msg.Recipients) + Len(recipients) <= MaxRecipients
        /\ Called("add_recipients", Size(recipients),
                  add_recipients(m, msg, recipients, resolved))
AddAttachments ==
    \E attachments \in AttachmentLists :
        /\ Len(msg.Attachments) + 1 <= MaxAttachments
        /\ Called("add_attachments", IF attachments = None THEN "omitted" ELSE Size(attachments[1]),
                  add_attachments(m, msg, attachments))
RemoveAttachment == \E e \in HostErrors : Called("remove_attachemnt", "", remove_attachemnt(m, msg, e))
HtmlBodyFormat ==
    \E characters \in {<<>>, <<"Ann">>} :
        Called("html_body_format", "", html_body_format(m, msg, characters))
Getter ==
    \/ Called("get_sender", "", get_sender(m, msg))
    \/ Called("get_category", "", get_category(m, msg))
    \/ Called("get_class", "", get_class(m, msg))
    \/ Called("get_senton_date", "", get_senton_date(m, msg))
    \/ Called("get_conversation_topic", "", get_conversation_topic(m, msg))
    \/ Called("get_recipients_address", "", get_recipients_address(m, msg))
GetRecipientsMailAddress ==
    Called("get_recipients_mail_address", "", get_recipients_mail_address(m, msg))

\* the recipient collections an item can come with
RECURSIVE ItemRecipients(_)
ItemRecipients(n) ==
    IF n = 0 THEN {<<>>}
    ELSE LET shorter == ItemRecipients(n - 1)
         IN  shorter \cup
             { Append(rs, [name |-> p, Resolved |-> b]) :
                 rs \in {x \in shorter : Len(x) = n - 1}, p \in People, b \in BOOLEAN }

\* Mail() and Mail(item): the item is one the host already has
InitMail ==
    /\ parent = <<>> /\ fname = <<>> /\ nextHandle = 1
    /\ cls_outlookapi = 0 /\ heap = <<>> /\ refs = {} /\ constructs = 0
    /\ folder = None /\ op = "start" /\ arg = ""
    /\ raised = None /\ err = None /\ exit = None /\ scanned = <<>>
    /\ InitIterIdle
    /\ calls = 0 /\ ret = None
    /\ \/ m = Mail(None) /\ msg = BlankItem /\ nextItem = 1
       \/ /\ m = Mail(Some(1)) /\ nextItem = 2
          /\ \E rs \in ItemRecipients(MaxRecipients) : msg = [BlankItem EXCEPT !.Recipients = rs]

NextMail ==
    \/ Create
    \/ SetField
    \/ Send \/ Save \/ MoveTo \/ Close \/ Display \/ MarkUnread
    \/ AddRecipients \/ AddAttachments \/ RemoveAttachment \/ HtmlBodyFormat
    \/ Getter
    \/ GetRecipientsMailAddress

SpecMail == InitMail /\ [][NextMail]_vars

\* ================================================================ properties
\* d is a Folders mapping of the folder h: its keys are the names of h's
\* children in the host, each key is mapped to a record with that Name and
\* that child's handle, and so on below each child
RECURSIVE Mirrors(_, _, _, _)
Mirrors(d, par, nm, h) ==
    LET children == {c \in DOMAIN par : par[c] = h}
    IN  /\ DOMAIN d = {nm[c] : c \in children}
        /\ \A c \in children :
              /\ d[nm[c]].Name = nm[c]
              /\ d[nm[c]].COMObject = c
              /\ Mirrors(d[nm[c]].Folders, par, nm, c)

Min(a, b) == IF a <= b THEN a ELSE b

\* C1 (as claimed): consumed to its end on a folder of T >= 1 items, the
\* iteration with limit N has yielded min(N, T) records (T when the limit is
\* omitted), the i-th wrapping the i-th most recent item.
C1_yields_min_of_limit_and_count ==
    (Len(items) >= 1 /\ gen.state \in {"done", "error"}) =>
        LET T == Len(items)
            want == IF gen.loops = None THEN T ELSE Min(gen.loops[1], T)
        IN  /\ Len(gen.yielded) = want
            /\ \A i \in 1..want : gen.yielded[i].COMObject = Some(items[T - i + 1])

\* C2: right after a successful add_folder or delete_folder, the accounts
\* mapping of the session, with every Folders mapping nested in it, holds
\* exactly the folders the host has.
C2_accounts_match_host_after_mutation ==
    (op \in {"add_folder", "delete_folder"} /\ err = None) =>
        \A id \in refs : Mirrors(heap[id].accounts, parent, fname, 0)

C2_witness ==
    /\ op = "delete_folder" /\ err = None
    /\ nextHandle > 1 + Cardinality(DOMAIN parent)
    /\ \E c \in DOMAIN parent : parent[c] # 0

\* C3: Folder(handle) has the Name and the handle of the folder, and at every
\* level its Folders mapping has the names of the host's child folders as
\* keys, each mapped to the Folder of that child.
C3_folder_mirrors_hierarchy ==
    op = "Folder" =>
        /\ folder # None
        /\ folder[1].Name = fname[folder[1].COMObject]
        /\ Mirrors(folder[1].Folders, parent, fname, folder[1].COMObject)

C3_witness ==
    /\ op = "Folder" /\ folder # None
    /\ \E k \in DOMAIN folder[1].Folders :
          \E j \in DOMAIN folder[1].Folders[k].Folders :
              folder[1].Folders[k].Folders[j].COMObject \in DOMAIN parent

\* C4: every construction returns the one object the first construction
\* made: there is at most one session object, and every reference handed out
\* is to it.
C4_single_session_object ==
    /\ Len(heap) <= 1
    /\ Cardinality(refs) <= 1
    /\ \A r \in refs : r = cls_outlookapi

C4_witness == constructs >= 2 /\ exit = None /\ refs # {}

ResolvedAddresses(recipients) ==
    LET kept == SelectSeq(recipients, LAMBDA r : r.Resolved)
    IN  [i \in DOMAIN kept |-> kept[i].name \o "@domen.com"]

HandleOps ==
    { "send", "save", "move_to", "close", "display", "mark_unread", "remove_attachemnt",
      "html_body_format", "get_sender", "get_category", "get_class", "get_senton_date",
      "get_conversation_topic", "get_recipients_mail_address", "get_recipients_address" }

C8_empty_folder_raises ==
    (Len(items) = 0 /\ gen.state \in {"done", "error"}) => gen.state = "error"

\* C9: when the host raises in add_folder or delete_folder, the caller gets
\* that error, and the session object (accounts, account, mail) is as it was.
C9_host_error_leaves_session ==
    [][ (op' \in {"add_folder", "delete_folder"} /\ raised' # None) =>
            (err' = raised' /\ heap' = heap /\ exit' = None) ]_vars

C9_witness ==
    /\ op = "delete_folder" /\ err # None
    /\ \A c \in DOMAIN parent : fname[c] # arg
    /\ \E id \in refs : ~Mirrors(heap[id].accounts, parent, fname, 0)

\* C10: after a construction that found the session object already there,
\* every holder of it sees no current mail, an accounts mapping that matches
\* the host, and the account named in that construction.
C10_reconstruction_resets_session ==
    (op = "OutlookAPI" /\ exit = None /\ constructs >= 2) =>
        \A r \in refs :
            /\ heap[r].mail = None
            /\ Mirrors(heap[r].accounts, parent, fname, 0)
            /\ heap[r].account \in DOMAIN parent
            /\ parent[heap[r].account] = 0
            /\ fname[heap[r].account] = arg

C10_witness ==
    /\ op = "OutlookAPI" /\ exit = None /\ constructs >= 2
    /\ nextItem > 1
    /\ \E c, d \in DOMAIN parent : parent[c] = 0 /\ parent[d] = 0 /\ c # d

====
